---------------------------- MODULE Spec2Model ----------------------------
(***************************************************************************)
(* A model of the REMEDI benchmarking code:                                *)
(*   - scripts/benchmark.py: load_editor, group_by_id and main (the        *)
(*     per-layer, per-subset evaluation loop with its results files);      *)
(*   - src/benchmarks.py: essence (batched generation under an edit        *)
(*     scope) and classification (the metric loop).                        *)
(* Each part has its own specification over the module's variables; the    *)
(* variables of the other parts stay at their initial values.              *)
(***************************************************************************)
EXTENDS Integers, Sequences, FiniteSets, TLC

VARIABLES
    \* ---- scripts/benchmark.py: main ----
    args,         \* the command line: editor_type, layers (None when
                  \* --layers is omitted)
    editorsDir,   \* the editors directory on disk: given, typeDir, weights,
                  \* intDirs
    files,        \* results files: <<layer, key>> -> [exists, text]
    scoresFiles,  \* scores.json per layer: layer -> [exists, text]
    pc,           \* where main is
    run,          \* number of the current invocation of main
    li,           \* index into layers of the layer being benchmarked
    ki,           \* index into KEYS of the subset being evaluated
    results,      \* main's local dict results: key -> EvaluateRun
    hist,         \* what the running invocation has done so far
    prev,         \* how the invocation before ended, and the scores.json
                  \* files it left if it completed
    dev,          \* main's device: --device, CUDA availability, line 97's choice, its uses
    \* ---- src/benchmarks.py: essence ----
    ein,          \* the arguments of the call
    epc,          \* where essence is
    ebatch,       \* batch_index
    emax,         \* the local max_length (None is {}, a value v is {v})
    scopes,       \* number of editors.apply scopes open on the model
    calls,        \* the tokenizer, model and editors.apply calls made so far
    eerr,         \* the exception essence ended with, if any
    eout,         \* the lists essence builds, and the samples it returns
    \* ---- scripts/benchmark.py: group_by_id ----
    gin,          \* results.results: the sample id of each result, in order
    gpc,          \* where group_by_id is
    gi,           \* the number of results the loop has taken
    grouped,      \* the dict grouped, in insertion order: <<[key, items]>>
    gout,         \* the OrderedDict returned
    \* ---- src/benchmarks.py: classification ----
    csamples,     \* the list samples (lines 349-366)
    cpc,          \* where classification is
    ckey,         \* the variable key of the loop at line 339
    cit,          \* the iteration of the method/task loops, 1..4
    cres,         \* benchmark_results_kwargs: method -> task -> metrics
    cscored       \* method -> task -> the y_true and y_pred that were scored

mainVars == <<args, editorsDir, files, scoresFiles, pc, run, li, ki, results,
              hist, prev, dev>>

essVars == <<ein, epc, ebatch, emax, scopes, calls, eerr, eout>>

grpVars == <<gin, gpc, gi, grouped, gout>>

clsVars == <<csamples, cpc, ckey, cit, cres, cscored>>

vars == <<mainVars, essVars, grpVars, clsVars>>

\* What each part of the program leaves alone.
notMain == <<essVars, grpVars, clsVars>>
notEssence == <<mainVars, grpVars, clsVars>>
notGroup == <<mainVars, essVars, clsVars>>
notClassification == <<mainVars, essVars, grpVars>>

----------------------------------------------------------------------------
(* Bounds of the model. *)

\* The longest --layers list.
MaxLayers == 2
\* main is invoked at most MaxRuns times on the same results directory.
MaxRuns == 2

\* The layers an editor can be attached to.
Layers == {1, 2}

\* The values editor.evaluate may return (an EditorEvaluateRun, opaque here).
Outcomes == {"runA", "runB"}

EditorTypes == {"identity", "linear"}

\* All sequences over S of length lo..hi.
SeqsOf(S, lo, hi) == UNION {[1..n -> S] : n \in lo..hi}

----------------------------------------------------------------------------
(* scripts/benchmark.py: files and their (de)serialisation. *)

\* The three subsets main evaluates per layer, in the order of its tuple.
KEYS == <<"prompts", "paraphrase_prompts", "generation_prompts">>

NoFile == [exists |-> FALSE, text |-> <<>>]

\* EditorEvaluateRun.to_json: the serialised document, as a token sequence.
to_json(r) == <<"{", r, "}">>

\* Whether EditorEvaluateRun.from_json accepts the text (it raises if not).
from_json_ok(text) == Len(text) = 3 /\ text[1] = "{" /\ text[3] = "}"

\* EditorEvaluateRun.from_json on a text it accepts.
from_json(text) == text[2]

\* json.dump(scores, handle): the scores document.
dump_scores(s) == <<"{", s, "}">>

\* The proper prefixes of a text: what an interrupted write can leave.
ProperPrefixes(text) == {SubSeq(text, 1, n) : n \in 0..(Len(text) - 1)}

\* results_file.exists(), line 158, mutated: no file is ever found, so that
\* every subset is evaluated again.
ResultsFileNeverExists(f) == FALSE

\* results_file.exists(), line 158, mutated: a file that does not load
\* counts as missing (and is then recomputed and overwritten).
ExistsOnlyIfLoadable(f) == files[f].exists /\ from_json_ok(files[f].text)

\* results_file.exists(), line 158.
ResultsFileExists(f) == files[f].exists

\* load_editor mutated: the weights check is dropped.
load_editor_no_check(editor_type, layer) == "editor"

\* load_editor: "None" or "editor".
load_editor(editor_type, layer) ==
    IF editor_type # "identity"
    THEN IF ~editorsDir.given THEN "None"
         ELSE IF layer \notin editorsDir.weights THEN "None"
         ELSE "editor"
    ELSE "editor"

\* The scores main computes from results (lines 180-235): efficacy from the
\* prompts run, paraphrase efficacy from the paraphrase run, consistency and
\* fluency from the generation run.
Scores(res) ==
    [efficacy            |-> <<"efficacy", res["prompts"]>>,
     paraphrase_efficacy |-> <<"efficacy", res["paraphrase_prompts"]>>,
     consistency         |-> <<"tfidf", res["generation_prompts"]>>,
     fluency             |-> <<"entropy", res["generation_prompts"]>>]

\* An optional argument: None is {}, a value v is {v}.
None == {}
Some(v) == {v}

\* The values --device is given in the model.
Devices == {"cpu", "cuda", "mps"}

\* Line 97: device = args.device or "cuda" if torch.cuda.is_available()
\* else "cpu".  The conditional expression binds weaker than or, so this is
\* (args.device or "cuda") if torch.cuda.is_available() else "cpu".
SelectDevice(given, cuda) ==
    IF cuda
    THEN IF given # None THEN CHOOSE d \in given : TRUE ELSE "cuda"
    ELSE "cpu"

\* main's device before line 97 has run, and no use of it.
NoDevice(given, cuda) ==
    [given |-> given, cuda |-> cuda, device |-> "unset", uses |-> {}]

\* The device is passed to a call (load_model, load_editor, evaluate).
UseDevice(d, call) == [d EXCEPT !.uses = @ \cup {<<call, d.device>>}]

NoHist == [reached |-> <<>>, evaluated |-> {}, written |-> {},
           skipped |-> {}, benchmarked |-> <<>>, loadError |-> FALSE]

\* sorted(...) of a set of integers, lines 109-115.
Sorted(S) ==
    CHOOSE q \in [1..Cardinality(S) -> S] :
        \A i, j \in 1..Cardinality(S) : i < j => q[i] < q[j]

\* Lines 107-115: main's layers: --layers, or, when it is omitted, the sorted
\* int(name) of the sub-directories of editors_dir.  The directory does not
\* change while main runs, so the list is read off it where it is used.
layers ==
    IF args.layers # None
    THEN CHOOSE q \in args.layers : TRUE
    ELSE Sorted(editorsDir.intDirs)

CurLayer == layers[li]
CurFile == <<CurLayer, KEYS[ki]>>
CurPos == <<li, ki>>

\* The variables of essence while another part of the program is modelled.
EssenceIdle ==
    /\ ein = <<>>
    /\ epc = "idle"
    /\ ebatch = 0
    /\ emax = {}
    /\ scopes = 0
    /\ calls = <<>>
    /\ eerr = "none"
    /\ eout = <<>>

\* The variables of group_by_id while another part is modelled.
GroupIdle ==
    /\ gin = <<>>
    /\ gpc = "idle"
    /\ gi = 0
    /\ grouped = <<>>
    /\ gout = <<>>

\* The variables of classification while another part is modelled.
ClassificationIdle ==
    /\ csamples = <<>>
    /\ cpc = "idle"
    /\ ckey = "unset"
    /\ cit = 0
    /\ cres = <<>>
    /\ cscored = <<>>

----------------------------------------------------------------------------
(* scripts/benchmark.py: main. *)

\* The integer-named sub-directories editors_dir may hold.  main lists them
\* only when --layers is omitted (line 108); with --layers they are left out.
ListedDirs(a) == IF a.layers = None THEN SUBSET Layers ELSE {{}}

MainInitWith(givens, cudas) ==
    /\ dev \in {NoDevice(g, c) : g \in givens, c \in cudas}
    /\ args \in [editor_type : EditorTypes,
                 layers : {None} \cup
                          {Some(q) : q \in SeqsOf(Layers, 1, MaxLayers)}]
    /\ editorsDir \in
         {[given |-> FALSE, typeDir |-> FALSE, weights |-> {}, intDirs |-> {}]}
         \cup {[given |-> TRUE, typeDir |-> FALSE, weights |-> {},
                intDirs |-> d] : d \in ListedDirs(args)}
         \cup {[given |-> TRUE, typeDir |-> TRUE, weights |-> w,
                intDirs |-> d] : w \in SUBSET Layers, d \in ListedDirs(args)}
    /\ files = [f \in Layers \X {KEYS[k] : k \in 1..3} |-> NoFile]
    /\ scoresFiles = [l \in Layers |-> NoFile]
    /\ pc = "start"
    /\ run = 1
    /\ li = 1
    /\ ki = 1
    /\ results = <<>>
    /\ hist = NoHist
    /\ prev = [done |-> FALSE, killed |-> FALSE, scores |-> scoresFiles]
    /\ EssenceIdle
    /\ GroupIdle
    /\ ClassificationIdle

\* main is invoked without --device on a machine with CUDA.
MainInit == MainInitWith({None}, {TRUE})

\* Lines 102-105: a non-identity editor type needs editors_dir/editor_type
\* (Path(None, ...) raises when --editors-dir is not given).
EditorsFound ==
    args.editor_type # "identity" => editorsDir.given /\ editorsDir.typeDir

\* Lines 107-115: with --layers omitted the sub-directories of editors_dir
\* are listed: editors_dir None has no iterdir, and int(name) raises on the
\* sub-directory named after the editor type.
LayersListed ==
    args.layers = None => editorsDir.given /\ ~editorsDir.typeDir

\* Lines 93-137: set-up; the device is chosen (line 97), the editors
\* directory is checked (lines 102-105), the layers are taken from --layers
\* or listed (lines 107-115), and the model is loaded on the device
\* (line 118).
MainStart ==
    /\ pc = "start"
    /\ LET d == [dev EXCEPT !.device = SelectDevice(dev.given, dev.cuda)]
       IN IF EditorsFound /\ LayersListed
          THEN pc' = "layer" /\ dev' = UseDevice(d, "load_model")
          ELSE pc' = "error" /\ dev' = d
    /\ UNCHANGED <<args, editorsDir, files, scoresFiles, run, li, ki, results,
                   hist, prev>>
    /\ UNCHANGED notMain

\* Line 139: the layers are exhausted and main returns.
LayersDone ==
    /\ pc = "layer"
    /\ li > Len(layers)
    /\ pc' = "done"
    /\ UNCHANGED <<args, editorsDir, dev, files, scoresFiles, run, li, ki, results,
                   hist, prev>>
    /\ UNCHANGED notMain

\* Lines 139-147: load the layer's editor; skip the layer when there is none.
LoadEditor ==
    /\ pc = "layer"
    /\ li <= Len(layers)
    /\ IF load_editor(args.editor_type, CurLayer) = "None"
       THEN /\ hist' = [hist EXCEPT !.skipped = @ \cup {li}]
            /\ li' = li + 1
            /\ UNCHANGED <<pc, ki, results>>
       ELSE /\ pc' = "key"
            /\ ki' = 1
            /\ results' = <<>>
            /\ UNCHANGED <<hist, li>>
    /\ dev' = UseDevice(dev, "load_editor")
    /\ UNCHANGED <<args, editorsDir, files, scoresFiles, run, prev>>
    /\ UNCHANGED notMain

\* Lines 157-174: the results file of the subset is looked up; an existing
\* file is loaded (from_json raises on a text it cannot parse), a missing one
\* makes main call editor.evaluate.
KeyStep ==
    /\ pc = "key"
    /\ ki <= 3
    /\ LET f == CurFile
           h == [hist EXCEPT !.reached = (CurPos :> files[f]) @@ @]
       IN IF ResultsFileExists(f)
          THEN IF from_json_ok(files[f].text)
               THEN /\ results' = (KEYS[ki] :> from_json(files[f].text)) @@ results
                    /\ ki' = ki + 1
                    /\ hist' = h
                    /\ UNCHANGED <<pc, dev>>
               ELSE /\ pc' = "error"
                    /\ hist' = [h EXCEPT !.loadError = TRUE]
                    /\ UNCHANGED <<ki, results, dev>>
          ELSE /\ pc' = "evaluate"
               /\ hist' = [h EXCEPT !.evaluated = @ \cup {CurPos}]
               /\ dev' = UseDevice(dev, "evaluate")
               /\ UNCHANGED <<ki, results>>
    /\ UNCHANGED <<args, editorsDir, files, scoresFiles, run, li, prev>>
    /\ UNCHANGED notMain

\* Lines 166-174: editor.evaluate returns the subset's run.
EvaluateReturn ==
    /\ pc = "evaluate"
    /\ \E r \in Outcomes : results' = (KEYS[ki] :> r) @@ results
    /\ pc' = "open"
    /\ UNCHANGED <<args, editorsDir, dev, files, scoresFiles, run, li, ki, hist, prev>>
    /\ UNCHANGED notMain

\* Line 177: results_file.open("w") creates or truncates the file.
OpenResultsFile ==
    /\ pc = "open"
    /\ files' = [files EXCEPT ![CurFile] = [exists |-> TRUE, text |-> <<>>]]
    /\ pc' = "write"
    /\ UNCHANGED <<args, editorsDir, dev, scoresFiles, run, li, ki, results, hist, prev>>
    /\ UNCHANGED notMain

\* Line 178: handle.write(generations.to_json()), and the file is closed.
WriteResultsFile ==
    /\ pc = "write"
    /\ files' = [files EXCEPT ![CurFile] =
                   [exists |-> TRUE, text |-> to_json(results[KEYS[ki]])]]
    /\ hist' = [hist EXCEPT !.written = @ \cup {CurPos}]
    /\ ki' = ki + 1
    /\ pc' = "key"
    /\ UNCHANGED <<args, editorsDir, dev, scoresFiles, run, li, results, prev>>
    /\ UNCHANGED notMain

\* Lines 180-238: the subsets are done; the scores are computed and
\* scores.json is opened for writing.
ComputeScores ==
    /\ pc = "key"
    /\ ki > 3
    /\ scoresFiles' = [scoresFiles EXCEPT ![CurLayer] =
                         [exists |-> TRUE, text |-> <<>>]]
    /\ pc' = "dump"
    /\ UNCHANGED <<args, editorsDir, dev, files, run, li, ki, results, hist, prev>>
    /\ UNCHANGED notMain

\* Line 239: json.dump(scores, handle); main goes on to the next layer.
DumpScores ==
    /\ pc = "dump"
    /\ scoresFiles' = [scoresFiles EXCEPT ![CurLayer] =
                         [exists |-> TRUE, text |-> dump_scores(Scores(results))]]
    /\ hist' = [hist EXCEPT !.benchmarked = Append(@, CurLayer)]
    /\ li' = li + 1
    /\ pc' = "layer"
    /\ UNCHANGED <<args, editorsDir, dev, files, run, ki, results, prev>>
    /\ UNCHANGED notMain

\* The process is killed while main runs; its memory is gone, the files
\* stay.  A kill during handle.write (line 178) or json.dump (line 239) may
\* leave any proper prefix of the document in the file.
Interrupt ==
    /\ pc \in {"start", "layer", "key", "evaluate", "open", "write", "dump"}
    /\ pc' = "killed"
    /\ IF pc = "write"
       THEN \E t \in ProperPrefixes(to_json(results[KEYS[ki]])) :
              files' = [files EXCEPT ![CurFile] = [exists |-> TRUE, text |-> t]]
       ELSE UNCHANGED files
    /\ IF pc = "dump"
       THEN \E t \in ProperPrefixes(dump_scores(Scores(results))) :
              scoresFiles' = [scoresFiles EXCEPT ![CurLayer] =
                                [exists |-> TRUE, text |-> t]]
       ELSE UNCHANGED scoresFiles
    /\ li' = 1
    /\ ki' = 1
    /\ results' = <<>>
    /\ hist' = NoHist
    /\ dev' = NoDevice(dev.given, dev.cuda)
    /\ UNCHANGED <<args, editorsDir, run, prev>>
    /\ UNCHANGED notMain

\* main is invoked again with the same command line on the same directories.
Restart ==
    /\ pc \in {"done", "error", "killed"}
    /\ run < MaxRuns
    /\ prev' = [done |-> pc = "done", killed |-> pc = "killed",
                scores |-> IF pc = "done" THEN scoresFiles
                           ELSE [l \in Layers |-> NoFile]]
    /\ run' = run + 1
    /\ pc' = "start"
    /\ li' = 1
    /\ ki' = 1
    /\ results' = <<>>
    /\ hist' = NoHist
    /\ dev' = NoDevice(dev.given, dev.cuda)
    /\ UNCHANGED <<args, editorsDir, files, scoresFiles>>
    /\ UNCHANGED notMain

MainNext ==
    \/ MainStart
    \/ LayersDone
    \/ LoadEditor
    \/ KeyStep
    \/ EvaluateReturn
    \/ OpenResultsFile
    \/ WriteResultsFile
    \/ ComputeScores
    \/ DumpScores
    \/ Interrupt
    \/ Restart

\* The invocations of main on one results directory.
Spec == MainInit /\ [][MainNext]_vars

\* main is invoked with or without --device, with or without CUDA.
DeviceInit == MainInitWith({None} \cup {Some(d) : d \in Devices}, BOOLEAN)

DeviceNext ==
    \/ MainStart
    \/ LayersDone
    \/ LoadEditor
    \/ KeyStep
    \/ EvaluateReturn
    \/ OpenResultsFile
    \/ WriteResultsFile
    \/ ComputeScores
    \/ DumpScores

\* One invocation of main, for every choice of --device and of CUDA.
SpecDevice == DeviceInit /\ [][DeviceNext]_vars

----------------------------------------------------------------------------
(* Properties of main. *)

\* What a results file was when main reached its subset.
FileState(file) ==
    IF ~file.exists THEN "absent"
    ELSE IF from_json_ok(file.text) THEN "complete"
    ELSE "corrupt"

HasWeights(layer) == layer \in editorsDir.weights

Range(s) == {s[i] : i \in DOMAIN s}

\* C1: Resumability of main.  For every layer and subset key the running
\* invocation has reached, editor.evaluate was called if and only if the
\* results file of that layer and key did not exist when the key was reached;
\* and an invocation that follows a completed one calls editor.evaluate for
\* nothing and ends with the scores.json files the completed one left.
Resumability ==
    /\ \A p \in DOMAIN hist.reached :
          (p \in hist.evaluated) <=> (FileState(hist.reached[p]) = "absent")
    /\ prev.done =>
          /\ hist.evaluated = {}
          /\ (pc = "done" => scoresFiles = prev.scores)

\* C1 witness: a second invocation after a completed first one has finished,
\* having reached all three subsets of a layer and written its scores.
ResumabilityWitness ==
    /\ run = 2
    /\ prev.done
    /\ pc = "done"
    /\ hist.benchmarked # <<>>
    /\ \E i \in 1..Len(layers) :
          \A k \in 1..3 : <<i, k>> \in DOMAIN hist.reached
    /\ hist.evaluated = {}

\* C2: Restart safety of main, as claimed.  Once main has been interrupted
\* and invoked again, every results file that exists is a complete document
\* that loads, the invocation does not fail on loading one, and no subset
\* whose file exists is evaluated again.
RestartSafety ==
    prev.killed =>
        /\ \A f \in DOMAIN files :
              files[f].exists => from_json_ok(files[f].text)
        /\ ~hist.loadError
        /\ \A p \in DOMAIN hist.reached :
              hist.reached[p].exists => p \notin hist.evaluated

\* C5: a results file that exists but does not load ends main with an
\* error at that subset: editor.evaluate is not called for it, nothing is
\* written for it, the file is what it was, and no scores.json is written
\* for the layer after the file was met.
CorruptFileIsAnError ==
    \A p \in DOMAIN hist.reached :
        FileState(hist.reached[p]) = "corrupt" =>
            /\ pc = "error"
            /\ p = CurPos
            /\ p \notin hist.evaluated
            /\ p \notin hist.written
            /\ files[CurFile] = hist.reached[p]
            /\ CurLayer \notin Range(hist.benchmarked)

\* C5 witness: main has met a results file that does not load and stopped.
CorruptFileWitness ==
    /\ pc = "error"
    /\ hist.loadError
    /\ FileState(files[CurFile]) = "corrupt"

\* What main has done for the layers without weights: each one main has gone
\* past was skipped, and nothing was evaluated, written or scored for any.
MissingWeightsSkipped ==
    /\ \A p \in hist.evaluated \cup hist.written \cup DOMAIN hist.reached :
          HasWeights(layers[p[1]])
    /\ \A l \in Range(hist.benchmarked) : HasWeights(l)
    /\ pc \in {"layer", "key", "evaluate", "open", "write", "dump", "done"} =>
          \A i \in 1..(li - 1) :
              ~HasWeights(layers[i]) => i \in hist.skipped

\* C10 as claimed: every requested layer whose weights file is missing is
\* skipped, whatever the editor type.
MissingWeightsAlwaysSkipped == MissingWeightsSkipped

\* C10 amended: with a non-identity editor type, every requested layer whose
\* weights file is missing is skipped (no evaluate call, no results file, no
\* scores.json), and between layers and at the end of main the layers
\* benchmarked so far are exactly the requested layers with weights that
\* main has gone past, in the order given.
MissingWeightsSkippedNonIdentity ==
    args.editor_type # "identity" =>
        /\ MissingWeightsSkipped
        /\ pc \in {"layer", "done"} =>
              hist.benchmarked =
                  SelectSeq(SubSeq(layers, 1, li - 1), HasWeights)

\* C10 witness: main has finished with a non-identity editor type, skipped a
\* layer without weights and benchmarked a later layer that has them.
MissingWeightsWitness ==
    /\ args.editor_type # "identity"
    /\ pc = "done"
    /\ \E i \in hist.skipped :
          /\ ~HasWeights(layers[i])
          /\ \E j \in (i + 1)..Len(layers) :
                /\ HasWeights(layers[j])
                /\ layers[j] \in Range(hist.benchmarked)

----------------------------------------------------------------------------
(* src/benchmarks.py: essence. *)

\* The longest prompt_template, in characters.
MaxTemplateLen == 4
\* The largest dataset, and the longest use_references.
MaxData == 3
\* The largest batch_size.
MaxBatch == 2

DEFAULT_MAX_LENGTH == 100

\* The characters a prompt_template is made of.
TemplateChars == {"{", "}", "x"}

\* The variables of main while another part of the program is modelled.
MainIdle ==
    /\ args = <<>>
    /\ editorsDir = <<>>
    /\ files = <<>>
    /\ scoresFiles = <<>>
    /\ pc = "idle"
    /\ run = 0
    /\ li = 0
    /\ ki = 0
    /\ results = <<>>
    /\ hist = NoHist
    /\ prev = <<>>
    /\ dev = <<>>

\* prompt_template.count("{}"): the non-overlapping occurrences of "{}",
\* counted from the left, from position i on.
RECURSIVE CountSlotsFrom(_, _)
CountSlotsFrom(t, i) ==
    IF i >= Len(t) THEN 0
    ELSE IF t[i] = "{" /\ t[i + 1] = "}" THEN 1 + CountSlotsFrom(t, i + 2)
    ELSE CountSlotsFrom(t, i + 1)

CountSlots(t) == CountSlotsFrom(t, 1)

\* prompt_template.format(entity) from position i on, with `fields`
\* replacement fields met so far: TRUE when it returns, FALSE when it raises
\* (a single brace, a named field, or a second field with one argument).
RECURSIVE FormatOkFrom(_, _, _)
FormatOkFrom(t, i, fields) ==
    IF i > Len(t) THEN TRUE
    ELSE IF t[i] = "{"
    THEN IF i + 1 <= Len(t) /\ t[i + 1] = "{" THEN FormatOkFrom(t, i + 2, fields)
         ELSE IF i + 1 <= Len(t) /\ t[i + 1] = "}"
         THEN fields = 0 /\ FormatOkFrom(t, i + 2, fields + 1)
         ELSE FALSE
    ELSE IF t[i] = "}"
    THEN i + 1 <= Len(t) /\ t[i + 1] = "}" /\ FormatOkFrom(t, i + 2, fields)
    ELSE FormatOkFrom(t, i + 1, fields)

FormatOk(t) == FormatOkFrom(t, 1, 0)

\* Line 90 mutated: a template with at least one slot is accepted.
TemplateHasSlot(t) == CountSlots(t) >= 1

\* Line 90: the template has exactly one empty slot.
TemplateOk(t) == CountSlots(t) = 1

\* Line 92 mutated: the length of use_references is not compared.
ReferencesUnchecked(refs, n) == TRUE

\* Line 92: use_references is None or as long as the dataset.
ReferencesOk(refs, n) == refs = None \/ \A r \in refs : Len(r) = n

\* Lines 98-99: the local max_length after the default is applied.
DefaultMaxLength(max_length, max_new_tokens) ==
    IF max_length = None /\ max_new_tokens = None
    THEN Some(DEFAULT_MAX_LENGTH)
    ELSE max_length

\* The number of batches the DataLoader yields (line 118).
NumBatches(n, batch_size) == (n + batch_size - 1) \div batch_size

\* The number of samples of batch b (0-based): len(entities).
BatchLen(n, batch_size, b) ==
    IF (b + 1) * batch_size <= n THEN batch_size ELSE n - b * batch_size

\* editors.apply: entering the scope opens it on the model.
ApplyEnter(open) == open + 1

\* editors.apply: leaving the scope restores the model.
ApplyExit(open) == open - 1

\* Lines 157-176 mutated: the scope is entered without a with statement and
\* an exception of generate skips its exit.
ScopesLeakedOnRaise(open) == open

\* Lines 157-176: the with statement leaves the scope when its block raises.
ScopesAfterRaise(open) == ApplyExit(open)

\* Lines 157-176 mutated: the scope is never left, the edit stays applied.
ScopesLeakedOnExit(open) == open

\* Lines 157-176: the with statement leaves the scope at the end of its block.
ScopesAfterBlock(open) == ApplyExit(open)

\* One entry of the call log.
Call(op) == [op |-> op, scopes |-> scopes, max_length |-> None,
             max_new_tokens |-> None]

\* A generate call with the caps it is given (lines 141-142 and 172-173).
GenerateCall(op) == [op |-> op, scopes |-> scopes, max_length |-> emax,
                     max_new_tokens |-> ein.max_new_tokens]

\* Line 152 mutated: the slice starts at batch_index * len(entities).
RefStartByBatchLen(b, batch_size, len) == b * len

\* Line 152: start = batch_index * batch_size.
RefStart(b, batch_size, len) == b * batch_size

\* A Python slice seq[start:end] with 0 <= start <= end.
PySlice(seq, start, end) ==
    SubSeq(seq, start + 1, IF end <= Len(seq) THEN end ELSE Len(seq))

\* The dataset positions (1-based) of the samples of batch b: the loader
\* chunks the dataset in its order (line 118).
BatchSamples(n, batch_size, b) ==
    [j \in 1..BatchLen(n, batch_size, b) |-> b * batch_size + j]

\* sample["id"] of the i-th sample of the dataset.
SampleId(i) == <<"id", i>>

\* The decoded output of the unedited model for the prompt of sample i.
Before(i) == <<"before", i>>

\* The decoded output of the edited model for sample i.
After(i) == <<"after", i>>

\* Lines 193-202: the three scores of one generation and its references.
SampleScores(generation, references) ==
    [essence_score |-> <<"tfidf", generation, references>>,
     fluency_generation_score |-> <<"entropy", generation>>,
     fluency_references_score |-> <<"entropy", references>>]

\* Python's zip of two lists, cut to the shorter.
Shorter(a, b) == IF Len(a) <= Len(b) THEN Len(a) ELSE Len(b)

\* Lines 204-221: the EssenceSample list, zipped from the dataset and the
\* lists built by the loop.
Samples(n, out) ==
    [i \in 1..Shorter([k \in 1..n |-> k],
                      [k \in 1..Shorter(out.generations,
                           [j \in 1..Shorter(out.reference_groups, out.scores)
                              |-> j]) |-> k]) |->
        [id |-> SampleId(i),
         generation |-> out.generations[i],
         references |-> out.reference_groups[i],
         scores |-> out.scores[i]]]

\* The lists of essence before its loop (lines 112-116).
NoOutput == [batch_reference_groups |-> <<>>, reference_groups |-> <<>>,
             generations |-> <<>>, scores |-> <<>>, samples |-> <<>>]

EssenceInit ==
    /\ ein \in [template : SeqsOf(TemplateChars, 0, MaxTemplateLen),
                n : 0..MaxData,
                use_references :
                    {None} \cup {Some([i \in 1..m |-> <<"refs", i>>]) :
                                   m \in 0..MaxData},
                batch_size : 1..MaxBatch,
                max_length : {None, Some(20)},
                max_new_tokens : {None, Some(5)},
                prompt_prefix : BOOLEAN]
    /\ epc = "start"
    /\ ebatch = 0
    /\ emax = ein.max_length
    /\ scopes = 0
    /\ calls = <<>>
    /\ eerr = "none"
    /\ eout = NoOutput
    /\ MainIdle
    /\ GroupIdle
    /\ ClassificationIdle

\* Lines 90-103: the arguments are checked and the defaults applied.
EssenceValidate ==
    /\ epc = "start"
    /\ IF ~TemplateOk(ein.template)
       THEN epc' = "raised" /\ eerr' = "ValueError" /\ UNCHANGED emax
       ELSE IF ~ReferencesOk(ein.use_references, ein.n)
       THEN epc' = "raised" /\ eerr' = "ValueError" /\ UNCHANGED emax
       ELSE /\ emax' = DefaultMaxLength(ein.max_length, ein.max_new_tokens)
            /\ epc' = "prefix"
            /\ UNCHANGED eerr
    /\ UNCHANGED <<ein, eout, ebatch, scopes, calls>>
    /\ UNCHANGED notEssence

\* Lines 105-110: the key/values of the prompt prefix are precomputed.
EssencePrefix ==
    /\ epc = "prefix"
    /\ calls' = IF ein.prompt_prefix
                THEN calls \o <<Call("tokenizer"), Call("forward_prefix")>>
                ELSE calls
    /\ epc' = "loop"
    /\ UNCHANGED <<ein, eout, ebatch, emax, scopes, eerr>>
    /\ UNCHANGED notEssence

\* Line 121: the loader is exhausted.
EssenceLoopDone ==
    /\ epc = "loop"
    /\ ebatch >= NumBatches(ein.n, ein.batch_size)
    /\ epc' = "aggregate"
    /\ UNCHANGED <<ein, eout, ebatch, emax, scopes, calls, eerr>>
    /\ UNCHANGED notEssence

\* Lines 121-135: the next batch; its prompts are formatted and tokenized.
EssenceBatchInputs ==
    /\ epc = "loop"
    /\ ebatch < NumBatches(ein.n, ein.batch_size)
    /\ IF FormatOk(ein.template)
       THEN /\ calls' = Append(calls, Call("tokenizer"))
            /\ epc' = "references"
            /\ UNCHANGED eerr
       ELSE /\ epc' = "raised"
            /\ eerr' = "format"
            /\ UNCHANGED calls
    /\ UNCHANGED <<ein, eout, ebatch, emax, scopes>>
    /\ UNCHANGED notEssence

\* Lines 136-155: the references of the batch, generated by the model
\* when use_references is None and sliced from use_references otherwise.
EssenceReferences ==
    /\ epc = "references"
    /\ calls' = IF ein.use_references = None
                THEN Append(calls, GenerateCall("generate_reference"))
                ELSE calls
    /\ LET len == BatchLen(ein.n, ein.batch_size, ebatch)
           start == RefStart(ebatch, ein.batch_size, len)
           groups ==
               IF ein.use_references = None
               THEN [j \in 1..len |->
                       <<Before(BatchSamples(ein.n, ein.batch_size, ebatch)[j])>>]
               ELSE LET refs == CHOOSE r \in ein.use_references : TRUE
                    IN PySlice(refs, start, start + len)
       IN eout' = [eout EXCEPT !.batch_reference_groups = groups,
                               !.reference_groups = @ \o groups]
    /\ epc' = "enter"
    /\ UNCHANGED <<ein, ebatch, emax, scopes, eerr>>
    /\ UNCHANGED notEssence

\* Lines 157-159: with editors.apply(...) as edited_mt.
EssenceEnterScope ==
    /\ epc = "enter"
    /\ scopes' = ApplyEnter(scopes)
    /\ calls' = Append(calls, Call("apply_enter"))
    /\ epc' = "edited"
    /\ UNCHANGED <<ein, eout, ebatch, emax, eerr>>
    /\ UNCHANGED notEssence

\* Lines 160-176: edited_mt.model.generate returns.
EssenceEditedGenerate ==
    /\ epc = "edited"
    /\ calls' = Append(calls, GenerateCall("generate_edited"))
    /\ epc' = "exit"
    /\ UNCHANGED <<ein, eout, ebatch, emax, scopes, eerr>>
    /\ UNCHANGED notEssence

\* Lines 160-176: edited_mt.model.generate raises; the with statement runs
\* the scope's exit and the exception leaves essence.
EssenceEditedGenerateRaises ==
    /\ epc = "edited"
    /\ calls' = Append(Append(calls, GenerateCall("generate_edited")),
                       Call("apply_exit"))
    /\ scopes' = ScopesAfterRaise(scopes)
    /\ epc' = "raised"
    /\ eerr' = "generate"
    /\ UNCHANGED <<ein, eout, ebatch, emax>>
    /\ UNCHANGED notEssence

\* Line 176: the end of the with block.
EssenceExitScope ==
    /\ epc = "exit"
    /\ scopes' = ScopesAfterBlock(scopes)
    /\ calls' = Append(calls, Call("apply_exit"))
    /\ epc' = "score"
    /\ UNCHANGED <<ein, eout, ebatch, emax, eerr>>
    /\ UNCHANGED notEssence

\* Lines 177-202: the generations are decoded and scored.
EssenceScore ==
    /\ epc = "score"
    /\ LET ids == BatchSamples(ein.n, ein.batch_size, ebatch)
           batch_generations == [j \in DOMAIN ids |-> After(ids[j])]
           m == Shorter(batch_generations, eout.batch_reference_groups)
       IN eout' = [eout EXCEPT
                     !.generations = @ \o batch_generations,
                     !.scores = @ \o
                        [j \in 1..m |->
                           SampleScores(batch_generations[j],
                                        eout.batch_reference_groups[j])]]
    /\ ebatch' = ebatch + 1
    /\ epc' = "loop"
    /\ UNCHANGED <<ein, emax, scopes, calls, eerr>>
    /\ UNCHANGED notEssence

\* Lines 204-236: the samples and the aggregated metrics are built.
\* metrics.Metric.aggregate over no scores at all (an empty dataset) is
\* outside this file: it may return or raise.
EssenceAggregate ==
    /\ epc = "aggregate"
    /\ \/ /\ epc' = "returned"
          /\ eout' = [eout EXCEPT !.samples = Samples(ein.n, eout)]
          /\ UNCHANGED eerr
       \/ /\ ein.n = 0
          /\ epc' = "raised"
          /\ eerr' = "aggregate"
          /\ UNCHANGED eout
    /\ UNCHANGED <<ein, ebatch, emax, scopes, calls>>
    /\ UNCHANGED notEssence

EssenceNext ==
    \/ EssenceValidate
    \/ EssencePrefix
    \/ EssenceLoopDone
    \/ EssenceBatchInputs
    \/ EssenceReferences
    \/ EssenceEnterScope
    \/ EssenceEditedGenerate
    \/ EssenceEditedGenerateRaises
    \/ EssenceExitScope
    \/ EssenceScore
    \/ EssenceAggregate

\* One call of essence.
SpecEssence == EssenceInit /\ [][EssenceNext]_vars

----------------------------------------------------------------------------
(* Properties of essence. *)

\* The positions of the call log that hold a call of the given kind.
CallsOf(op) == {i \in DOMAIN calls : calls[i].op = op}

\* The positions at which "{}" occurs in a template.
SlotPositions(t) ==
    {i \in 1..(Len(t) - 1) : t[i] = "{" /\ t[i + 1] = "}"}

\* C3: during essence at most one editors.apply scope is open at any time,
\* it is open only around the edited generate call, one scope has been
\* opened and closed per batch when essence returns, and no scope is open
\* when essence has returned or raised.
OneScopeAtATime ==
    /\ scopes \in {0, 1}
    /\ scopes = 1 <=> epc \in {"edited", "exit"}
    /\ epc \in {"returned", "raised"} => scopes = 0
    /\ epc = "returned" =>
          /\ Cardinality(CallsOf("apply_enter")) =
                 NumBatches(ein.n, ein.batch_size)
          /\ Cardinality(CallsOf("apply_exit")) =
                 NumBatches(ein.n, ein.batch_size)

\* C3 witness: the edited generate call of a batch after the first raised
\* inside its scope, after an earlier scope was opened and closed.
OneScopeWitness ==
    /\ epc = "raised"
    /\ eerr = "generate"
    /\ ebatch >= 1
    /\ CallsOf("apply_exit") # {}
    /\ scopes = 0

\* C4: with use_references unset, the prefix forward pass and every
\* reference generate call are made while no edit scope is open, and every
\* edited generate call is made inside exactly one.
ReferencesUnedited ==
    ein.use_references = None =>
        \A i \in DOMAIN calls :
            /\ calls[i].op \in {"forward_prefix", "generate_reference"} =>
                  calls[i].scopes = 0
            /\ calls[i].op = "generate_edited" => calls[i].scopes = 1

\* C4 witness: a reference generate call of a later batch was made after
\* the scope of an earlier batch was closed, and after the prefix pass.
ReferencesUneditedWitness ==
    /\ ein.use_references = None
    /\ CallsOf("forward_prefix") # {}
    /\ \E i \in CallsOf("apply_exit") :
          \E j \in CallsOf("generate_reference") : i < j

\* C8: a prompt_template without exactly one "{}" slot, or a use_references
\* of another length than the dataset, makes essence raise ValueError before
\* any tokenizer call, model call or edit scope.
InvalidArgumentsRaiseFirst ==
    (\/ Cardinality(SlotPositions(ein.template)) # 1
     \/ \E r \in ein.use_references : Len(r) # ein.n) =>
        /\ epc \in {"start", "raised"}
        /\ epc = "raised" => eerr = "ValueError"
        /\ calls = <<>>
        /\ scopes = 0

\* C8 witness: essence raised ValueError, before any call, for references
\* of the wrong length given with a template that has its one slot.
InvalidArgumentsWitness ==
    /\ epc = "raised"
    /\ eerr = "ValueError"
    /\ calls = <<>>
    /\ Cardinality(SlotPositions(ein.template)) = 1
    /\ \E r \in ein.use_references : Len(r) # ein.n

\* C9: in every generate call of essence exactly one of max_length and
\* max_new_tokens is set: max_length is 100 and max_new_tokens unset when
\* the caller sets neither, and a caller that sets both is rejected before
\* any generate call.
ExactlyOneCap ==
    /\ \A i \in CallsOf("generate_reference") \cup CallsOf("generate_edited") :
          /\ (calls[i].max_length = None) # (calls[i].max_new_tokens = None)
          /\ (ein.max_length = None /\ ein.max_new_tokens = None) =>
                /\ calls[i].max_length = Some(DEFAULT_MAX_LENGTH)
                /\ calls[i].max_new_tokens = None
    /\ (ein.max_length # None /\ ein.max_new_tokens # None) =>
          epc \in {"start", "raised"}

----------------------------------------------------------------------------
(* scripts/benchmark.py: group_by_id. *)

\* The longest results list.
MaxResults == 4

\* The sample ids of the results.
SampleIds == {"a", "b", "c"}

\* The i-th result of the run: its sample id and which result it is.
Result(ids, i) == [id |-> ids[i], pos |-> i]

\* The position of key k in an insertion-ordered dict, 0 when absent.
KeyIndex(d, k) ==
    IF \E g \in DOMAIN d : d[g].key = k
    THEN CHOOSE g \in DOMAIN d : d[g].key = k
    ELSE 0

\* Line 87 mutated: the result is put at the front of its group.
DictPrepend(d, k, v) ==
    IF KeyIndex(d, k) = 0
    THEN Append(d, [key |-> k, items |-> <<v>>])
    ELSE [d EXCEPT ![KeyIndex(d, k)].items = <<v>> \o @]

\* Line 87: grouped[k].append(v) on a defaultdict(list): a new key is
\* inserted last with an empty list, and v is appended to the key's list.
DictAppend(d, k, v) ==
    IF KeyIndex(d, k) = 0
    THEN Append(d, [key |-> k, items |-> <<v>>])
    ELSE [d EXCEPT ![KeyIndex(d, k)].items = Append(@, v)]

GroupInit ==
    /\ gin \in SeqsOf(SampleIds, 0, MaxResults)
    /\ gpc = "loop"
    /\ gi = 0
    /\ grouped = <<>>
    /\ gout = <<>>
    /\ MainIdle
    /\ EssenceIdle
    /\ ClassificationIdle

\* Lines 86-87: one iteration of the loop over results.results.
GroupStep ==
    /\ gpc = "loop"
    /\ gi < Len(gin)
    /\ grouped' = DictAppend(grouped, gin[gi + 1], Result(gin, gi + 1))
    /\ gi' = gi + 1
    /\ UNCHANGED <<gin, gpc, gout>>
    /\ UNCHANGED notGroup

\* Line 88: return OrderedDict(grouped), which keeps the order of grouped.
GroupReturn ==
    /\ gpc = "loop"
    /\ gi = Len(gin)
    /\ gout' = grouped
    /\ gpc' = "returned"
    /\ UNCHANGED <<gin, gi, grouped>>
    /\ UNCHANGED notGroup

GroupNext ==
    \/ GroupStep
    \/ GroupReturn

\* One call of group_by_id.
SpecGroup == GroupInit /\ [][GroupNext]_vars

\* The first position of sample id k in the input.
FirstOccurrence(ids, k) ==
    CHOOSE i \in DOMAIN ids :
        ids[i] = k /\ \A j \in 1..(i - 1) : ids[j] # k

\* C6: group_by_id returns an order-preserving partition of the results:
\* every result is in exactly one group, the group keyed by its sample id;
\* every group item is a result of the input; the groups are in the order
\* of the first occurrence of their ids; and inside a group the results are
\* in input order.
GroupByIdPartition ==
    gpc = "returned" =>
        /\ \A i \in DOMAIN gin :
              /\ Cardinality({gj \in (DOMAIN gout) \X (1..Len(gin)) :
                     /\ gj[2] <= Len(gout[gj[1]].items)
                     /\ gout[gj[1]].items[gj[2]] = Result(gin, i)}) = 1
              /\ \A g \in DOMAIN gout :
                    (\E j \in DOMAIN gout[g].items :
                        gout[g].items[j] = Result(gin, i))
                    => gout[g].key = gin[i]
        /\ \A g \in DOMAIN gout :
              /\ gout[g].items # <<>>
              /\ \A j \in DOMAIN gout[g].items :
                    /\ gout[g].items[j].pos \in DOMAIN gin
                    /\ gout[g].items[j] = Result(gin, gout[g].items[j].pos)
              /\ \A j, k \in DOMAIN gout[g].items :
                    j < k => gout[g].items[j].pos < gout[g].items[k].pos
        /\ \A g, h \in DOMAIN gout :
              g < h => /\ gout[g].key # gout[h].key
                       /\ FirstOccurrence(gin, gout[g].key)
                              < FirstOccurrence(gin, gout[h].key)

\* C6 witness: a run whose ids interleave (a, b, a, ...) was grouped into
\* at least two groups, one of them with two results.
GroupByIdWitness ==
    /\ gpc = "returned"
    /\ Len(gout) >= 2
    /\ Len(gin) >= 3
    /\ gin[1] = gin[3]
    /\ gin[1] # gin[2]
    /\ Len(gout[1].items) >= 2

----------------------------------------------------------------------------
(* src/benchmarks.py: classification. *)

\* The largest number of samples.
MaxSamples == 3

\* The ClassifierOutputs of one task: log-probabilities of the unedited
\* model and scores of the editor, for the target and the comparator.
OutputsDomain ==
    {[logp_target |-> lp[1], logp_comparator |-> lp[2],
      score_target |-> sc[1], score_comparator |-> sc[2]] :
        lp \in {<<-1, -2>>, <<-2, -1>>}, sc \in {<<1, 0>>, <<0, 1>>}}

\* ClassifierOutputs.label, lines 248-250.
label(o) == o.logp_target > o.logp_comparator

\* ClassifierOutputs.prediction, lines 252-254.
prediction(o) == o.score_target > o.score_comparator

\* The methods and tasks, in the order of the loops at lines 369-370.
Methods == <<"editor", "baseline">>
Tasks == <<"contextual", "decontextual">>

\* The number of positions at which a boolean list holds b.
CountOf(ys, b) == Cardinality({i \in DOMAIN ys : ys[i] = b})

\* The confusion counts of predictions against labels, True the positive.
Confusion(y_true, y_pred) ==
    [tp |-> Cardinality({i \in DOMAIN y_true : y_true[i] /\ y_pred[i]}),
     fp |-> Cardinality({i \in DOMAIN y_true : ~y_true[i] /\ y_pred[i]}),
     fn |-> Cardinality({i \in DOMAIN y_true : y_true[i] /\ ~y_pred[i]}),
     tn |-> Cardinality({i \in DOMAIN y_true : ~y_true[i] /\ ~y_pred[i]})]

\* sklearn accuracy_score as the fraction <<correct, n>>.
accuracy_score(y_true, y_pred) ==
    <<Cardinality({i \in DOMAIN y_true : y_true[i] = y_pred[i]}), Len(y_true)>>

\* sklearn f1_score (binary, True the positive class) as the fraction
\* <<2 tp, 2 tp + fp + fn>>, and 0 when there is no positive at all.
f1_score(y_true, y_pred) ==
    LET c == Confusion(y_true, y_pred)
    IN IF 2 * c.tp + c.fp + c.fn = 0 THEN <<0, 1>>
       ELSE <<2 * c.tp, 2 * c.tp + c.fp + c.fn>>

\* sklearn matthews_corrcoef as <<covariance, product of the variances>>:
\* its value is the covariance over the square root of the product, and 0
\* when the product is 0.
matthews_corrcoef(y_true, y_pred) ==
    LET c == Confusion(y_true, y_pred)
        n == Len(y_true)
        cov_ytyp == (c.tp + c.tn) * n
                      - ((c.tp + c.fn) * (c.tp + c.fp)
                           + (c.tn + c.fp) * (c.tn + c.fn))
        cov_ypyp == n * n - ((c.tp + c.fp) * (c.tp + c.fp)
                               + (c.tn + c.fn) * (c.tn + c.fn))
        cov_ytyt == n * n - ((c.tp + c.fn) * (c.tp + c.fn)
                               + (c.tn + c.fp) * (c.tn + c.fp))
    IN IF cov_ypyp * cov_ytyt = 0 THEN <<0, 1>>
       ELSE <<cov_ytyp, cov_ypyp * cov_ytyt>>

\* Line 376 mutated: a tie between the labels goes to False.
MajorityStrict(labels) == 2 * CountOf(labels, TRUE) > Len(labels)

\* Line 376: majority = sum(y_true) >= len(y_true) / 2.
Majority(labels) == 2 * CountOf(labels, TRUE) >= Len(labels)

\* Line 382: y_true = [not x for x in y_true].
NegateTrue(ys) == [i \in DOMAIN ys |-> ~ys[i]]

\* Line 383 mutated: the predictions are left as they are.
NegatePredDropped(ys) == ys

\* Line 383: y_pred = [not x for x in y_pred].
NegatePred(ys) == [i \in DOMAIN ys |-> ~ys[i]]

\* Lines 371-383: what one method and task are scored on, read from the
\* ClassifierOutputs found under attribute attr of every sample: the labels
\* and predictions as read, and the y_true and y_pred handed to the metrics.
ScoredFrom(samples, method, task, attr) ==
    LET labels == [i \in DOMAIN samples |-> label(samples[i][attr])]
        predictions == [i \in DOMAIN samples |-> prediction(samples[i][attr])]
        pred2 == IF method = "baseline"
                 THEN [i \in DOMAIN samples |-> Majority(labels)]
                 ELSE predictions
    IN [labels |-> labels,
        predictions |-> pred2,
        y_true |-> IF task = "contextual" THEN NegateTrue(labels) ELSE labels,
        y_pred |-> IF task = "contextual" THEN NegatePred(pred2) ELSE pred2]

\* Lines 371-390: the ClassifierMetrics of one method and task, computed
\* from the ClassifierOutputs found under attribute attr of every sample.
MetricsFrom(samples, method, task, attr) ==
    LET scored == ScoredFrom(samples, method, task, attr)
    IN [accuracy |-> accuracy_score(scored.y_true, scored.y_pred),
        f1 |-> f1_score(scored.y_true, scored.y_pred),
        mcc |-> matthews_corrcoef(scored.y_true, scored.y_pred)]

\* The method and the task of iteration it (1..4) of the nested loops.
MethodOf(it) == Methods[((it - 1) \div 2) + 1]
TaskOf(it) == Tasks[((it - 1) % 2) + 1]

ClassificationInit ==
    /\ csamples \in SeqsOf([contextual : OutputsDomain,
                           decontextual : OutputsDomain], 1, MaxSamples)
    /\ cpc = "classify"
    /\ ckey = "unset"
    /\ cit = 0
    /\ cres = <<>>
    /\ cscored = <<>>
    /\ MainIdle
    /\ EssenceIdle
    /\ GroupIdle

\* Lines 338-347: for key in ("contextual", "decontextual"): editor.classify.
ClassifyRun ==
    /\ cpc = "classify"
    /\ ckey # "decontextual"
    /\ ckey' = IF ckey = "unset" THEN "contextual" ELSE "decontextual"
    /\ UNCHANGED <<csamples, cpc, cit, cres, cscored>>
    /\ UNCHANGED notClassification

\* Lines 349-368: the samples are built and the metric loops begin.
BuildSamples ==
    /\ cpc = "classify"
    /\ ckey = "decontextual"
    /\ cpc' = "metrics"
    /\ cit' = 1
    /\ UNCHANGED <<csamples, ckey, cres, cscored>>
    /\ UNCHANGED notClassification

\* Lines 369-390: one iteration of the method/task loops; the labels and
\* predictions are read through getattr(sample, key).
MetricsStep ==
    /\ cpc = "metrics"
    /\ cit <= 4
    /\ cres' = (<<MethodOf(cit), TaskOf(cit)>> :>
                  MetricsFrom(csamples, MethodOf(cit), TaskOf(cit), ckey))
               @@ cres
    /\ cscored' = (<<MethodOf(cit), TaskOf(cit)>> :>
                     ScoredFrom(csamples, MethodOf(cit), TaskOf(cit), ckey))
                  @@ cscored
    /\ cit' = cit + 1
    /\ UNCHANGED <<csamples, cpc, ckey>>
    /\ UNCHANGED notClassification

\* Lines 391-396: the results are wrapped and returned.
ClassificationReturn ==
    /\ cpc = "metrics"
    /\ cit > 4
    /\ cpc' = "returned"
    /\ UNCHANGED <<csamples, ckey, cit, cres, cscored>>
    /\ UNCHANGED notClassification

ClassificationNext ==
    \/ ClassifyRun
    \/ BuildSamples
    \/ MetricsStep
    \/ ClassificationReturn

\* One call of classification.
SpecClassification == ClassificationInit /\ [][ClassificationNext]_vars

\* Equality of two fractions <<numerator, denominator>>.
FractionEq(a, b) == a[1] * b[2] = b[1] * a[2]

\* Equality of two correlation values <<covariance, product of variances>>.
MccEq(a, b) ==
    /\ (a[1] > 0) = (b[1] > 0)
    /\ (a[1] < 0) = (b[1] < 0)
    /\ a[1] * a[1] * b[2] = b[1] * b[1] * a[2]

MetricsEq(m1, m2) ==
    /\ FractionEq(m1.accuracy, m2.accuracy)
    /\ FractionEq(m1.f1, m2.f1)
    /\ MccEq(m1.mcc, m2.mcc)

\* C7: for each method and each task, the metrics stored under the task are
\* the ones computed from that task's own ClassifierOutputs of every sample.
MetricsFromOwnTask ==
    \A mt \in DOMAIN cres :
        MetricsEq(cres[mt], MetricsFrom(csamples, mt[1], mt[2], mt[2]))

\* The larger of two numbers.
Max(a, b) == IF a >= b THEN a ELSE b

\* C11: for a non-empty sample list the baseline predicts one constant class
\* for all samples, the majority label (True on an exact tie) of the labels
\* it reads, so in both tasks its accuracy is max(#True, #False) / n over the
\* labels it is scored against and is never below 1/2.
BaselineIsMajority ==
    \A t \in {"contextual", "decontextual"} :
        <<"baseline", t>> \in DOMAIN cres =>
            LET sc == cscored[<<"baseline", t>>]
                acc == cres[<<"baseline", t>>].accuracy
                n == Len(csamples)
            IN /\ n >= 1
               /\ Len(sc.y_true) = n /\ Len(sc.y_pred) = n
               /\ \A i \in 1..n :
                     /\ sc.predictions[i] =
                            (CountOf(sc.labels, TRUE) >= CountOf(sc.labels, FALSE))
                     /\ sc.y_pred[i] = sc.y_pred[1]
               /\ FractionEq(acc, <<Max(CountOf(sc.y_true, TRUE),
                                         CountOf(sc.y_true, FALSE)), n>>)
               /\ 2 * acc[1] >= acc[2]

\* C11 witness: the baseline was scored on the labels [True, True, False],
\* predicted [True, True, True] and got accuracy 2/3.
BaselineWitness ==
    /\ cpc = "returned"
    /\ cscored[<<"baseline", "decontextual">>].labels = <<TRUE, TRUE, FALSE>>
    /\ cscored[<<"baseline", "decontextual">>].y_pred = <<TRUE, TRUE, TRUE>>
    /\ cres[<<"baseline", "decontextual">>].accuracy = <<2, 3>>

\* Lists of booleans negated element by element.
Negated(ys) == [i \in DOMAIN ys |-> ~ys[i]]

\* The F1 score of predictions against labels with False as the positive
\* class: <<2 tn, 2 tn + fp + fn>>, and 0 when there is no negative at all.
F1OfFalse(y_true, y_pred) ==
    LET c == Confusion(y_true, y_pred)
    IN IF 2 * c.tn + c.fp + c.fn = 0 THEN <<0, 1>>
       ELSE <<2 * c.tn, 2 * c.tn + c.fp + c.fn>>

\* C13: the polarity flip of the contextual task negates every element of
\* y_true and of y_pred, and leaves accuracy and MCC what they are on the
\* un-negated labels and predictions, while F1 is the F1 of the negated
\* class (False before the flip) as the positive class.
FlipKeepsAccuracyAndMcc ==
    \A m \in {"editor", "baseline"} :
        <<m, "contextual">> \in DOMAIN cres =>
            LET sc == cscored[<<m, "contextual">>]
                got == cres[<<m, "contextual">>]
            IN /\ Len(sc.labels) = Len(sc.predictions)
               /\ sc.y_true = Negated(sc.labels)
               /\ sc.y_pred = Negated(sc.predictions)
               /\ FractionEq(got.accuracy,
                             accuracy_score(sc.labels, sc.predictions))
               /\ MccEq(got.mcc, matthews_corrcoef(sc.labels, sc.predictions))
               /\ FractionEq(got.f1, F1OfFalse(sc.labels, sc.predictions))

\* C13 witness: the editor's contextual metrics were computed for labels and
\* predictions that disagree somewhere and agree somewhere, with an F1 that
\* differs from the F1 of the un-negated lists and a non-zero MCC.
FlipWitness ==
    /\ cpc = "returned"
    /\ LET sc == cscored[<<"editor", "contextual">>]
           got == cres[<<"editor", "contextual">>]
       IN /\ \E i \in DOMAIN sc.labels : sc.labels[i] # sc.predictions[i]
          /\ \E i \in DOMAIN sc.labels : sc.labels[i] = sc.predictions[i]
          /\ ~FractionEq(got.f1, f1_score(sc.labels, sc.predictions))
          /\ got.mcc[1] # 0

\* C12: whatever the batch size, essence returns exactly one EssenceSample
\* per dataset sample, in dataset order, with that sample's id, the
\* generation and the scores computed for that sample, and for references
\* the i-th entry of use_references when it is supplied (and the unedited
\* model's output for that sample when it is not).
OneSamplePerDatasetSample ==
    epc = "returned" =>
        /\ Len(eout.samples) = ein.n
        /\ \A i \in 1..ein.n :
              LET refs == IF ein.use_references = None
                          THEN <<Before(i)>>
                          ELSE (CHOOSE r \in ein.use_references : TRUE)[i]
              IN eout.samples[i] =
                    [id |-> SampleId(i),
                     generation |-> After(i),
                     references |-> refs,
                     scores |-> SampleScores(After(i), refs)]

\* C12 witness: essence returned for a dataset of three samples taken in
\* batches of two (the last batch is short), with use_references supplied.
OneSamplePerDatasetSampleWitness ==
    /\ epc = "returned"
    /\ ein.n = 3
    /\ ein.batch_size = 2
    /\ ein.use_references # None
    /\ Len(eout.samples) = 3
    /\ eout.samples[3].references = <<"refs", 3>>

\* C14: whenever --device is given, the model is loaded and every editor is
\* loaded and evaluated on exactly that device, whether or not CUDA is
\* available; when --device is not given the device is "cuda" if CUDA is
\* available and "cpu" otherwise.
DeviceAsGiven ==
    \A u \in dev.uses :
        u[2] = IF dev.given # None
               THEN CHOOSE d \in dev.given : TRUE
               ELSE IF dev.cuda THEN "cuda" ELSE "cpu"

=============================================================================
